---- MODULE Spec2Model ----
(***************************************************************************)
(* A model of odoobrowser.py: the Odoo domain-filter builder, the cached   *)
(* XML-RPC query facade (query_odoo), the relationship resolver and the    *)
(* Flask page handlers built on them.                                      *)
(*                                                                         *)
(* Python values are encoded as records [t, items]: t is "None", "True"   *)
(* or "list"; items is the content of a list.  The elements of a          *)
(* parameter list are records with a field `kind`: the "|" token, a       *)
(* (field, "=", value) clause, or a bare record id.                       *)
(***************************************************************************)
EXTENDS Integers, Sequences, FiniteSets, TLC

VARIABLES
    now,        \* time(), in seconds
    cache,      \* SimpleCache._cache: key -> [expires, value]
    db,         \* the records of the remote server: model name -> set of ids
    fieldsOf,   \* the rows of ir.model.fields on the remote: entity id -> fields
    last,       \* the request that completed last, with the query_odoo calls it made
    reqs,       \* number of requests served
    fetched,    \* history: key -> time and value of its last successful remote result
    deleted,    \* history: the <<model, id>> pairs the remote has unlinked
    arg_names,  \* create_model_query: the argument
    built,      \* create_model_query: the value returned
    called,     \* create_model_query: has returned
    thr,        \* concurrent requests: thread -> position in query_odoo and its locals
    lastSet,    \* history: key -> the value of the last cache.set
    produced    \* history: call -> the values the remote returned for that call

vars == <<now, cache, db, fieldsOf, last, reqs, fetched, deleted,
          arg_names, built, called, thr, lastSet, produced>>

(***************************************************************************)
(* Bounds of the model                                                     *)
(***************************************************************************)
MaxLen == 4          \* longest model_names list given to create_model_query
MaxNames == 2        \* longest model_names list posted to /plantuml
MaxRow == 2          \* record ids of a data model are 1..MaxRow
MaxRequests == 4     \* requests served in one behaviour of Spec
MaxResolves == 1     \* requests served in one behaviour of SpecResolver
MaxTime == 300       \* the clock stops here
TickStep == 150      \* granularity of the clock
MaxStarts == 3       \* query_odoo calls started in one concurrent behaviour

TTL == 300           \* cache.set(key, results, timeout=5 * 60)
Limit == 10          \* view_model: limit=10

(***************************************************************************)
(* Python values                                                           *)
(***************************************************************************)
None == [t |-> "None", items |-> <<>>]
True == [t |-> "True", items |-> <<>>]
List(s) == [t |-> "list", items |-> s]

\* bool(v) as `if rv:` evaluates it
Truthy(v) == \/ v.t = "True"
             \/ v.t = "list" /\ Len(v.items) > 0

OrTok == [kind |-> "or"]
Clause(f, v) == [kind |-> "clause", field |-> f, value |-> v]
Id(i) == [kind |-> "id", value |-> i]

Range(s) == {s[i] : i \in DOMAIN s}
SeqsUpTo(S, n) == UNION {[1..k -> S] : k \in 0..n}

(***************************************************************************)
(* create_model_query                                                      *)
(***************************************************************************)
RECURSIVE ExtendPairs(_, _)
\* for item in query[:-1]: combined_query.extend(["|", item])
ExtendPairs(items, combined_query) ==
    IF items = <<>> THEN combined_query
    ELSE ExtendPairs(Tail(items), combined_query \o <<OrTok, Head(items)>>)

RECURSIVE Infix(_)
Infix(items) ==
    IF Len(items) <= 1 THEN items
    ELSE <<Head(items), OrTok>> \o Infix(Tail(items))

\* a slip: the "|" tokens placed between the clauses instead of before them
create_model_query_infix(model_names) ==
    Infix([i \in 1..Len(model_names) |-> Clause("model", model_names[i])])

create_model_query(model_names) ==
    LET query == [i \in 1..Len(model_names) |-> Clause("model", model_names[i])]
        n == Len(query)
    IN IF Len(model_names) < 2 THEN query
       ELSE Append(ExtendPairs(SubSeq(query, 1, n - 1), <<>>), query[n])

(***************************************************************************)
(* The cache key: f"{model}-{operation}-{param}-{opts}"                    *)
(***************************************************************************)
NoOpts == [t |-> "None", fields |-> <<>>, limit |-> 0]      \* opts=None
EmptyOpts == [t |-> "dict", fields |-> <<>>, limit |-> 0]   \* {}
\* dict(fields=[...], limit=10) of view_model
ModelOpts ==
    [t |-> "dict",
     fields |-> <<"name", "create_uid", "create_date", "write_uid", "write_date",
                  "model_name">>,
     limit |-> Limit]

RECURSIVE Join(_, _)
Join(strs, sep) ==
    IF strs = <<>> THEN ""
    ELSE IF Len(strs) = 1 THEN strs[1]
    ELSE strs[1] \o sep \o Join(Tail(strs), sep)

Quote(s) == "'" \o s \o "'"

\* repr() of one element of a parameter list
ReprItem(x) ==
    CASE x.kind = "or" -> Quote("|")
      [] x.kind = "id" -> ToString(x.value)
      [] x.kind = "clause" ->
            "(" \o Quote(x.field) \o ", " \o Quote("=") \o ", "
                \o (IF x.field = "model" THEN Quote(x.value) ELSE ToString(x.value))
                \o ")"

ParamStr(param) ==
    "[" \o Join([i \in 1..Len(param) |-> ReprItem(param[i])], ", ") \o "]"

OptsStr(opts) ==
    IF opts.t = "None" THEN "None"
    ELSE IF opts.fields = <<>> /\ opts.limit = 0 THEN "{}"
    ELSE "{'fields': ["
            \o Join([i \in 1..Len(opts.fields) |-> Quote(opts.fields[i])], ", ")
            \o "], 'limit': " \o ToString(opts.limit) \o "}"

\* a slip: the model name left out of the key
KeyWithoutModel(model, operation, param, opts) ==
    operation \o "-" \o ParamStr(param) \o "-" \o OptsStr(opts)

Key(model, operation, param, opts) ==
    model \o "-" \o operation \o "-" \o ParamStr(param) \o "-" \o OptsStr(opts)

(***************************************************************************)
(* werkzeug SimpleCache, as the program uses it: get(key) and              *)
(* set(key, value, timeout).  An entry is served while expires > time().   *)
(***************************************************************************)
EmptyCache == [k \in {} |-> [expires |-> 0, value |-> None]]

CacheGet(c, t, key) ==
    IF key \in DOMAIN c /\ (c[key].expires = 0 \/ c[key].expires > t)
    THEN c[key].value
    ELSE None

CacheSet(c, t, key, value, timeout) ==
    [k \in DOMAIN c \cup {key} |->
        IF k = key THEN [expires |-> t + timeout, value |-> value] ELSE c[k]]

(***************************************************************************)
(* The remote server behind ServerProxy: login and execute_kw.             *)
(***************************************************************************)
EntityNames == {"m1", "m2"}
Entities == <<[id |-> 1, model |-> "m1"], [id |-> 2, model |-> "m2"]>>
Rows == 1..MaxRow
Outcomes == {"ok", "login_fault", "exec_fault"}

RECURSIVE SetToSeq(_)
SetToSeq(S) ==
    IF S = {} THEN <<>>
    ELSE LET m == CHOOSE x \in S : \A y \in S : x <= y
         IN <<m>> \o SetToSeq(S \ {m})

RECURSIVE Concat(_)
Concat(ss) == IF ss = <<>> THEN <<>> ELSE Head(ss) \o Concat(Tail(ss))

\* the rows of a model on the remote, in id order
RowsOf(d, fo, model) ==
    CASE model = "ir.model" -> Entities
      [] model = "ir.model.fields" ->
            Concat([i \in 1..Len(Entities) |-> fo[Entities[i].id]])
      [] OTHER -> LET ids == SetToSeq(d[model])
                  IN [i \in 1..Len(ids) |-> [id |-> ids[i]]]

RECURSIVE EvalAt(_, _, _)
\* one term of a domain in prefix notation, read from position i
EvalAt(dom, i, row) ==
    IF dom[i].kind = "or"
    THEN LET l == EvalAt(dom, i + 1, row)
             r == EvalAt(dom, l.next, row)
         IN [val |-> l.val \/ r.val, next |-> r.next]
    ELSE [val |-> dom[i].field \in DOMAIN row /\ row[dom[i].field] = dom[i].value,
          next |-> i + 1]

RECURSIVE Matches(_, _, _)
\* the terms of a domain are implicitly and-ed
Matches(dom, i, row) ==
    IF i > Len(dom) THEN TRUE
    ELSE LET e == EvalAt(dom, i, row)
         IN e.val /\ Matches(dom, e.next, row)

Min(a, b) == IF a < b THEN a ELSE b

\* models.execute_kw(DATABASE, user_id, PASSWORD, model, operation, [param], opts)
\* when the remote raises no Fault
execute_kw(d, fo, model, operation, param, opts) ==
    IF operation = "unlink"
    THEN [db |-> [d EXCEPT ![model] = @ \ {param[i].value : i \in DOMAIN param}],
          results |-> True]
    ELSE LET Test(row) == Matches(param, 1, row)
             found == SelectSeq(RowsOf(d, fo, model), Test)
             n == IF opts.limit > 0 THEN Min(opts.limit, Len(found)) ELSE Len(found)
         IN [db |-> d, results |-> List(SubSeq(found, 1, n))]

(***************************************************************************)
(* query_odoo                                                              *)
(***************************************************************************)
\* a slip: every value that is not None counts as a cache hit
CacheHitNotNone(rv) == rv /= None

\* if rv:
CacheHit(rv) == Truthy(rv)

\* a slip: a write drops the other entries of the cache
StoreInvalidating(c, t, key, results) ==
    CacheSet(EmptyCache, t, key, results, TTL)

\* cache.set(key, results, timeout=5 * 60)
Store(c, t, key, results) == CacheSet(c, t, key, results, TTL)

\* a slip: the result of a faulted call cached as None is still a write
OnFaultCaching(c, t, key) == CacheSet(c, t, key, None, TTL)

\* except Fault as err: app.logger.debug(...)
OnFault(c, t, key) == c

\* the tail of query_odoo: cache.set(key, results, timeout=5 * 60); return results
query_odoo_store(c, t, key, r) ==
    [cache |-> Store(c, t, key, r.results), db |-> r.db, rv |-> r.results,
     exc |-> "none", logins |-> 1, execs |-> 1]

\* query_odoo from `if rv:` on, rv being the value cache.get returned
query_odoo_rv(c, d, fo, t, model, operation, param, opts, out, key, rv) ==
    IF CacheHit(rv)
    THEN [cache |-> c, db |-> d, rv |-> rv, exc |-> "none", logins |-> 0, execs |-> 0]
    ELSE IF out = "login_fault"
    THEN \* common.login is outside the try block
         [cache |-> c, db |-> d, rv |-> None, exc |-> "Fault", logins |-> 1, execs |-> 0]
    ELSE IF out = "exec_fault"
    THEN [cache |-> OnFault(c, t, key), db |-> d, rv |-> None, exc |-> "none",
          logins |-> 1, execs |-> 1]
    ELSE query_odoo_store(c, t, key, execute_kw(d, fo, model, operation, param, opts))

\* query_odoo from rv = cache.get(key) on
query_odoo_key(c, d, fo, t, model, operation, param, opts, out, key) ==
    query_odoo_rv(c, d, fo, t, model, operation, param, opts, out, key,
                  CacheGet(c, t, key))

\* query_odoo(model, operation, param, opts) at time t with cache c and remote
\* state d; `out` is what the remote does if it is called.  exc = "Fault" when
\* the call raises.
query_odoo(c, d, fo, t, model, operation, param, opts, out) ==
    query_odoo_key(c, d, fo, t, model, operation, param, opts, out,
                   Key(model, operation, param, opts))

(***************************************************************************)
(* One request.  w is the state a request works on: the cache, the remote  *)
(* records, the histories and the log of the query_odoo calls made so far. *)
(* outs[n] is what the remote does at the n-th query_odoo call of the      *)
(* request, if that call reaches the remote.                               *)
(***************************************************************************)
\* the state and the log after a query_odoo call that returned q
Logged(w, t, model, operation, param, key, out, q) ==
    [w |-> [cache |-> q.cache,
            db |-> q.db,
            fetched |-> IF q.execs = 1 /\ out = "ok"
                        THEN (key :> [at |-> t, value |-> q.rv]) @@ w.fetched
                        ELSE w.fetched,
            deleted |-> IF q.execs = 1 /\ out = "ok" /\ operation = "unlink"
                        THEN w.deleted \cup {<<model, param[i].value>> : i \in DOMAIN param}
                        ELSE w.deleted,
            calls |-> Append(w.calls,
                        [key |-> key, model |-> model, operation |-> operation,
                         rv |-> q.rv, exc |-> q.exc, logins |-> q.logins,
                         execs |-> q.execs,
                         outcome |-> IF q.logins = 0 THEN "cached" ELSE out,
                         fresh |-> key \in DOMAIN w.fetched
                                   /\ t < w.fetched[key].at + TTL,
                         prev |-> IF key \in DOMAIN w.fetched
                                  THEN w.fetched[key].value ELSE None])],
     rv |-> q.rv,
     exc |-> q.exc]

CallOut(w, fo, t, out, model, operation, param, opts) ==
    Logged(w, t, model, operation, param, Key(model, operation, param, opts), out,
           query_odoo(w.cache, w.db, fo, t, model, operation, param, opts, out))

Call(w, fo, t, outs, model, operation, param, opts) ==
    CallOut(w, fo, t, outs[Len(w.calls) + 1], model, operation, param, opts)

get_fields(w, fo, t, outs, model_id) ==
    Call(w, fo, t, outs, "ir.model.fields", "search_read",
         <<Clause("model_id", model_id)>>, EmptyOpts)

get_models(w, fo, t, outs, model_names) ==
    Call(w, fo, t, outs, "ir.model", "search_read",
         create_model_query(model_names), NoOpts)

\* a slip: a field that points back at its own model is skipped
IsRelationNoSelf(field, model, model_names) ==
    /\ "relation" \in DOMAIN field
    /\ field.relation /= ""
    /\ field.relation \in Range(model_names)
    /\ field.relation /= model.model

\* if "relation" in field and field["relation"]:
\*     if field["relation"] in model_names:
IsRelation(field, model, model_names) ==
    /\ "relation" \in DOMAIN field
    /\ field.relation /= ""
    /\ field.relation \in Range(model_names)

\* for field in fields: ... relations.append(field)
Related(fields, model, model_names) ==
    LET Keep(field) == IsRelation(field, model, model_names)
    IN SelectSeq(fields, Keep)

RECURSIVE ResolveLoop(_, _, _, _, _, _, _)
RECURSIVE ResolveBody(_, _, _, _, _, _, _, _, _)
\* the body of the loop for model = Head(results), f being what get_fields returned
ResolveBody(fo, t, outs, results, model_names, models, relations, model, f) ==
    IF f.exc = "Fault"
    THEN [w |-> f.w, models |-> models, relations |-> relations, error |-> "Fault"]
    ELSE IF f.rv = None
    THEN \* for field in fields: 'NoneType' object is not iterable
         [w |-> f.w, models |-> Append(models, [model |-> model, fields |-> f.rv]),
          relations |-> relations, error |-> "TypeError"]
    ELSE ResolveLoop(f.w, fo, t, outs, Tail(results), model_names,
                     [models |-> Append(models, [model |-> model, fields |-> f.rv]),
                      relations |-> relations \o Related(f.rv.items, model, model_names)])

\* for model in results: ...; acc holds models and relations
ResolveLoop(w, fo, t, outs, results, model_names, acc) ==
    IF results = <<>>
    THEN [w |-> w, models |-> acc.models, relations |-> acc.relations,
          error |-> "none"]
    ELSE ResolveBody(fo, t, outs, results, model_names, acc.models, acc.relations,
                     Head(results), get_fields(w, fo, t, outs, Head(results).id))

\* get_models_with_relations after results = get_models(model_names)
Resolve(fo, t, outs, model_names, r) ==
    IF r.exc = "Fault"
    THEN [w |-> r.w, models |-> <<>>, relations |-> <<>>, error |-> "Fault"]
    ELSE IF r.rv = None
    THEN \* for model in results: 'NoneType' object is not iterable
         [w |-> r.w, models |-> <<>>, relations |-> <<>>, error |-> "TypeError"]
    ELSE ResolveLoop(r.w, fo, t, outs, r.rv.items, model_names,
                     [models |-> <<>>, relations |-> <<>>])

get_models_with_relations(w, fo, t, outs, model_names) ==
    Resolve(fo, t, outs, model_names, get_models(w, fo, t, outs, model_names))

(***************************************************************************)
(* The page handlers.  error = "none": the handler returned a response.    *)
(***************************************************************************)
Page(w, error, objects, models, relations) ==
    [w |-> w, error |-> error, objects |-> objects, models |-> models,
     relations |-> relations]

\* a handler that hands results to the template or redirects
Rendered(q) ==
    Page(q.w, IF q.exc = "Fault" THEN "Fault" ELSE "none", q.rv, <<>>, <<>>)

\* a handler that takes len(results) first
RenderedWithLength(q) ==
    Page(q.w,
         IF q.exc = "Fault" THEN "Fault" ELSE IF q.rv = None THEN "TypeError" ELSE "none",
         q.rv, <<>>, <<>>)

delete_row(w, fo, t, outs, model_name, row_id) ==
    Rendered(Call(w, fo, t, outs, model_name, "unlink", <<Id(row_id)>>, NoOpts))

view_model(w, fo, t, outs, model_name) ==
    Rendered(Call(w, fo, t, outs, model_name, "search_read", <<>>, ModelOpts))

list_models(w, fo, t, outs) ==
    RenderedWithLength(Call(w, fo, t, outs, "ir.model", "search_read", <<>>, NoOpts))

list_fields(w, fo, t, outs, model_id) ==
    RenderedWithLength(Call(w, fo, t, outs, "ir.model.fields", "search_read",
                            <<Clause("model_id", model_id)>>, NoOpts))

view_data(w, fo, t, outs, model_name) ==
    RenderedWithLength(Call(w, fo, t, outs, model_name, "search_read", <<>>, NoOpts))

\* view_details from render_template on: object=results[0], model=models[0][0]
DetailPage(g, q) ==
    IF q.exc = "Fault" THEN Page(q.w, "Fault", None, g.models, g.relations)
    ELSE IF q.rv = None
    THEN \* results[0]: 'NoneType' object is not subscriptable
         Page(q.w, "TypeError", q.rv, g.models, g.relations)
    ELSE IF q.rv.items = <<>> \/ g.models = <<>>
    THEN \* results[0], models[0]: list index out of range
         Page(q.w, "IndexError", q.rv, g.models, g.relations)
    ELSE Page(q.w, "none", q.rv, g.models, g.relations)

\* view_details after models, relations = get_models_with_relations([model_name])
Details(fo, t, outs, model_name, row_id, g) ==
    IF g.error /= "none" THEN Page(g.w, g.error, None, g.models, g.relations)
    ELSE DetailPage(g, Call(g.w, fo, t, outs, model_name, "search_read",
                            <<Clause("id", row_id)>>, NoOpts))

view_details(w, fo, t, outs, model_name, row_id) ==
    Details(fo, t, outs, model_name, row_id,
            get_models_with_relations(w, fo, t, outs, <<model_name>>))

\* view_plantuml after results, relations = get_models_with_relations(model_names)
Diagram(g) == Page(g.w, g.error, None, g.models, g.relations)

view_plantuml(w, fo, t, outs, model_names) ==
    Diagram(get_models_with_relations(w, fo, t, outs, model_names))

(***************************************************************************)
(* Initial states                                                          *)
(***************************************************************************)
Rel(id, model_id, relation) == [id |-> id, model_id |-> model_id, relation |-> relation]
Plain(id, model_id) == [id |-> id, model_id |-> model_id]

\* ir.model.fields on the remote: relations inside and outside the entity
\* names, a self-relation, a repeated relation, an empty and an absent one
RemoteFields ==
    (1 :> <<Rel(11, 1, "m2"), Rel(12, 1, "m1"), Plain(13, 1), Rel(14, 1, ""),
            Rel(15, 1, "res.users"), Rel(16, 1, "m2")>>)
    @@ (2 :> <<Rel(21, 2, "m1"), Plain(22, 2)>>)

RecordModels == {"m1"}          \* the models whose records the requests touch
FieldQueryIds == {2, 3}         \* the ids given to /fields/<id>; 3 has no entity
FilterNames == {"bus.bus", "edi.edit", "ir.cron"}
Threads == {1, 2}

NoRequest ==
    [handler |-> "none", model |-> "", row |-> 0, names |-> <<>>, error |-> "none",
     objects |-> None, models |-> <<>>, relations |-> <<>>, calls |-> <<>>]

NoHistory == [k \in {} |-> [at |-> 0, value |-> None]]

IdleThread ==
    [pc |-> "idle", model |-> "", operation |-> "", param |-> <<>>, opts |-> NoOpts,
     key |-> "", rv |-> None, results |-> None, ret |-> None, called |-> FALSE,
     wrote |-> FALSE]

InitProgram ==
    /\ now = 0
    /\ cache = EmptyCache
    /\ db = [m \in EntityNames |-> Rows]
    /\ fieldsOf = RemoteFields
    /\ last = NoRequest
    /\ reqs = 0
    /\ fetched = NoHistory
    /\ deleted = {}
    /\ thr = [t \in Threads |-> IdleThread]
    /\ lastSet = [k \in {} |-> None]
    /\ produced = [k \in {} |-> {}]

Init ==
    /\ InitProgram
    /\ arg_names = <<>>
    /\ built = <<>>
    /\ called = FALSE

(***************************************************************************)
(* Requests served one at a time                                           *)
(***************************************************************************)
W0 == [cache |-> cache, db |-> db, fetched |-> fetched, deleted |-> deleted,
       calls |-> <<>>]

OutSeqs == [1..(1 + Len(Entities)) -> Outcomes]

Serve(handler, model_name, row_id, model_names, res) ==
    /\ cache' = res.w.cache
    /\ db' = res.w.db
    /\ fetched' = res.w.fetched
    /\ deleted' = res.w.deleted
    /\ last' = [handler |-> handler, model |-> model_name, row |-> row_id,
                names |-> model_names, error |-> res.error, objects |-> res.objects,
                models |-> res.models, relations |-> res.relations,
                calls |-> res.w.calls]
    /\ reqs' = reqs + 1
    /\ UNCHANGED <<now, fieldsOf, arg_names, built, called, thr, lastSet, produced>>

DeleteRow ==
    /\ reqs < MaxRequests
    /\ \E m \in RecordModels, r \in Rows, out \in Outcomes :
        Serve("delete_row", m, r, <<>>, delete_row(W0, fieldsOf, now, <<out>>, m, r))

ViewModel ==
    /\ reqs < MaxRequests
    /\ \E m \in RecordModels, out \in Outcomes :
        Serve("view_model", m, 0, <<>>, view_model(W0, fieldsOf, now, <<out>>, m))

ListModels ==
    /\ reqs < MaxRequests
    /\ \E out \in Outcomes :
        Serve("list_models", "", 0, <<>>, list_models(W0, fieldsOf, now, <<out>>))

ListFields ==
    /\ reqs < MaxRequests
    /\ \E id \in FieldQueryIds, out \in Outcomes :
        Serve("list_fields", "", id, <<>>, list_fields(W0, fieldsOf, now, <<out>>, id))

ViewData ==
    /\ reqs < MaxRequests
    /\ \E m \in RecordModels, out \in Outcomes :
        Serve("view_data", m, 0, <<>>, view_data(W0, fieldsOf, now, <<out>>, m))

ViewDetails ==
    /\ reqs < MaxResolves
    /\ \E m \in RecordModels, r \in Rows, outs \in OutSeqs :
        Serve("view_details", m, r, <<m>>, view_details(W0, fieldsOf, now, outs, m, r))

ViewPlantuml ==
    /\ reqs < MaxResolves
    /\ \E names \in SeqsUpTo(EntityNames, MaxNames), outs \in OutSeqs :
        Serve("view_plantuml", "", 0, names,
              view_plantuml(W0, fieldsOf, now, outs, names))

\* time passes between requests
Tick ==
    /\ now + TickStep <= MaxTime
    /\ now' = now + TickStep
    /\ UNCHANGED <<cache, db, fieldsOf, last, reqs, fetched, deleted,
                   arg_names, built, called, thr, lastSet, produced>>

Next ==
    \/ DeleteRow
    \/ ViewModel
    \/ ListModels
    \/ ListFields
    \/ ViewData
    \/ Tick

Spec == Init /\ [][Next]_vars

\* the requests that go through get_models_with_relations
NextResolver ==
    \/ ViewDetails
    \/ ViewPlantuml
    \/ Tick

SpecResolver == Init /\ [][NextResolver]_vars

(***************************************************************************)
(* create_model_query on its own                                           *)
(***************************************************************************)
InitFilter ==
    /\ InitProgram
    /\ arg_names \in SeqsUpTo(FilterNames, MaxLen)
    /\ built = <<>>
    /\ called = FALSE

BuildFilter ==
    /\ ~called
    /\ built' = create_model_query(arg_names)
    /\ called' = TRUE
    /\ UNCHANGED <<now, cache, db, fieldsOf, last, reqs, fetched, deleted,
                   arg_names, thr, lastSet, produced>>

NextFilter == BuildFilter

SpecFilter == InitFilter /\ [][NextFilter]_vars

(***************************************************************************)
(* Two requests inside query_odoo at the same time.  A thread moves        *)
(* through cache.get, common.login, models.execute_kw and cache.set; the   *)
(* cache and the remote are shared.                                        *)
(***************************************************************************)
CallOf(model, operation, param, opts) ==
    [model |-> model, operation |-> operation, param |-> param, opts |-> opts]

\* view_data("m1"), view_data("m2") and delete_row("m1", 1)
ConcCalls ==
    {CallOf("m1", "search_read", <<>>, NoOpts),
     CallOf("m2", "search_read", <<>>, NoOpts),
     CallOf("m1", "unlink", <<Id(1)>>, NoOpts)}

ThreadCall(t) ==
    CallOf(thr[t].model, thr[t].operation, thr[t].param, thr[t].opts)

ConcUnchanged == UNCHANGED <<fieldsOf, last, fetched, deleted, arg_names, built, called>>

Start(t) ==
    /\ thr[t].pc = "idle"
    /\ reqs < MaxStarts
    /\ \E c \in ConcCalls :
          thr' = [thr EXCEPT ![t] =
                    [IdleThread EXCEPT !.pc = "get", !.model = c.model,
                                       !.operation = c.operation, !.param = c.param,
                                       !.opts = c.opts,
                                       !.key = Key(c.model, c.operation, c.param, c.opts)]]
    /\ reqs' = reqs + 1
    /\ UNCHANGED <<now, cache, db, lastSet, produced>>
    /\ ConcUnchanged

\* rv = cache.get(key); if rv: return rv
Get(t) ==
    /\ thr[t].pc = "get"
    /\ LET rv == CacheGet(cache, now, thr[t].key)
       IN thr' = [thr EXCEPT ![t].rv = rv,
                             ![t].pc = IF CacheHit(rv) THEN "done" ELSE "login",
                             ![t].ret = IF CacheHit(rv) THEN rv ELSE None]
    /\ UNCHANGED <<now, cache, db, reqs, lastSet, produced>>
    /\ ConcUnchanged

\* user_id = common.login(DATABASE, USERNAME, PASSWORD)
Login(t) ==
    /\ thr[t].pc = "login"
    /\ \E out \in {"ok", "login_fault"} :
          thr' = [thr EXCEPT ![t].pc = IF out = "ok" THEN "exec" ELSE "raised"]
    /\ UNCHANGED <<now, cache, db, reqs, lastSet, produced>>
    /\ ConcUnchanged

\* results = models.execute_kw(...)
Exec(t) ==
    /\ thr[t].pc = "exec"
    /\ \E out \in {"ok", "exec_fault"} :
          IF out = "ok"
          THEN LET r == execute_kw(db, fieldsOf, thr[t].model, thr[t].operation,
                                   thr[t].param, thr[t].opts)
                   c == ThreadCall(t)
               IN /\ db' = r.db
                  /\ thr' = [thr EXCEPT ![t].pc = "set", ![t].results = r.results,
                                        ![t].called = TRUE]
                  /\ produced' = (c :> ((IF c \in DOMAIN produced THEN produced[c] ELSE {})
                                         \cup {r.results})) @@ produced
                  /\ cache' = cache
          ELSE /\ thr' = [thr EXCEPT ![t].pc = "done", ![t].ret = None]
               /\ cache' = OnFault(cache, now, thr[t].key)
               /\ UNCHANGED <<db, produced>>
    /\ UNCHANGED <<now, reqs, lastSet>>
    /\ ConcUnchanged

\* cache.set(key, results, timeout=5 * 60); return results
Set(t) ==
    /\ thr[t].pc = "set"
    /\ cache' = Store(cache, now, thr[t].key, thr[t].results)
    /\ lastSet' = (thr[t].key :> thr[t].results) @@ lastSet
    /\ thr' = [thr EXCEPT ![t].pc = "done", ![t].ret = thr[t].results,
                          ![t].wrote = TRUE]
    /\ UNCHANGED <<now, db, reqs, produced>>
    /\ ConcUnchanged

\* the request ends and the thread takes the next one
Finish(t) ==
    /\ thr[t].pc \in {"done", "raised"}
    /\ thr' = [thr EXCEPT ![t] = IdleThread]
    /\ UNCHANGED <<now, cache, db, reqs, lastSet, produced>>
    /\ ConcUnchanged

TickConc ==
    /\ now + TickStep <= MaxTime
    /\ now' = now + TickStep
    /\ UNCHANGED <<cache, db, reqs, thr, lastSet, produced>>
    /\ ConcUnchanged

NextConc ==
    \/ \E t \in Threads : Start(t)
    \/ \E t \in Threads : Get(t)
    \/ \E t \in Threads : Login(t)
    \/ \E t \in Threads : Exec(t)
    \/ \E t \in Threads : Set(t)
    \/ \E t \in Threads : Finish(t)
    \/ TickConc

SpecConc == Init /\ [][NextConc]_vars

(***************************************************************************)
(* Properties                                                              *)
(***************************************************************************)
Max(a, b) == IF a > b THEN a ELSE b
Faulted(c) == c.outcome \in {"login_fault", "exec_fault"}
NewRequest == reqs' = reqs + 1
\* the value cache.get serves for a key in the current state, if it is a hit
Served(key) == Truthy(CacheGet(cache, now, key))

\* C1: create_model_query(names) with N names returns, for N <= 1, the N clauses
\* ('model', '=', name) and no '|'; for N >= 2, '|', clause_1, ..., '|',
\* clause_(N-1), clause_N: the clauses in input order, duplicates kept, N-1 '|'
\* tokens each right before one of the first N-1 clauses.  The length is
\* N + max(0, N-1).
C1_FilterShape ==
    called =>
        LET n == Len(arg_names)
        IN /\ n <= 1 =>
                /\ Len(built) = n
                /\ \A i \in 1..n : built[i] = Clause("model", arg_names[i])
           /\ n >= 2 =>
                /\ Len(built) = 2 * n - 1
                /\ \A i \in 1..(n - 1) :
                      /\ built[2 * i - 1] = OrTok
                      /\ built[2 * i] = Clause("model", arg_names[i])
                /\ built[2 * n - 1] = Clause("model", arg_names[n])
           /\ Len(built) = n + Max(0, n - 1)
           /\ Cardinality({j \in DOMAIN built : built[j] = OrTok}) = Max(0, n - 1)

\* a list of three names with a duplicate has been turned into a filter
C1_Witness ==
    /\ called
    /\ Len(arg_names) = 3
    /\ arg_names[1] = arg_names[2]
    /\ arg_names[3] /= arg_names[1]

\* C2: when every remote call of get_models_with_relations(names) succeeds, the
\* returned relations are exactly the fetched fields, in fetch order and once per
\* fetched occurrence, whose 'relation' is present, non-empty and a member of
\* names; a relation to a model outside names is left out and a self-relation
\* is kept.
C2_RelationsFilter ==
    (/\ last.handler \in {"view_plantuml", "view_details"}
     /\ \A i \in DOMAIN last.calls : ~Faulted(last.calls[i]))
    => LET Wanted(f) == /\ "relation" \in DOMAIN f
                        /\ f.relation /= ""
                        /\ f.relation \in Range(last.names)
       IN last.relations =
            Concat([i \in 1..Len(last.models) |->
                      SelectSeq(last.models[i].fields.items, Wanted)])

\* /plantuml for ["m1"]: the self-relation of m1 is returned, the relation to m2
\* was fetched and is left out
C2_Witness ==
    /\ last.handler = "view_plantuml"
    /\ last.names = <<"m1">>
    /\ \A i \in DOMAIN last.calls : ~Faulted(last.calls[i])
    /\ Len(last.models) = 1
    /\ last.models[1].model.model = "m1"
    /\ \E i \in DOMAIN last.relations : last.relations[i].relation = "m1"
    /\ \E f \in Range(last.models[1].fields.items) :
          /\ "relation" \in DOMAIN f
          /\ f.relation = "m2"
          /\ f \notin Range(last.relations)

\* C3: two identical query_odoo calls within the 5-minute window of a successful
\* result (an empty list included) return identical results, and the second one
\* makes no remote call.
C3_CacheIdempotent ==
    \A i \in DOMAIN last.calls :
        last.calls[i].fresh =>
            /\ last.calls[i].logins = 0
            /\ last.calls[i].execs = 0
            /\ last.calls[i].rv = last.calls[i].prev

\* C4: when execute_kw raises a Fault inside query_odoo, the fault is caught,
\* query_odoo returns None and the cache is unchanged: nothing is stored under the
\* key, and the next identical call misses the cache again and contacts the remote.
C4_FaultNotCached ==
    [][NewRequest =>
        /\ \A i \in DOMAIN last'.calls :
              last'.calls[i].outcome = "exec_fault" =>
                  /\ last'.calls[i].rv = None
                  /\ last'.calls[i].exc = "none"
                  /\ cache' = cache
                  /\ ~Truthy(CacheGet(cache', now', last'.calls[i].key))
        /\ (/\ last.calls /= <<>>
            /\ last.calls[1].outcome = "exec_fault"
            /\ last'.calls[1].key = last.calls[1].key)
           => last'.calls[1].logins = 1
      ]_vars

\* execute_kw faulted for a key while the cache held entries
C4_Witness ==
    /\ last.calls /= <<>>
    /\ last.calls[1].outcome = "exec_fault"
    /\ last.calls[1].rv = None
    /\ DOMAIN cache /= {}
    /\ last.calls[1].key \notin DOMAIN cache

\* C5: if query_odoo returns None (after a remote fault) for the entity query or
\* for a field query, get_models_with_relations treats it as zero items and
\* returns its models and relations instead of raising.
C5_ResolverSurvivesFault ==
    (/\ last.handler = "view_plantuml"
     /\ \E i \in DOMAIN last.calls : last.calls[i].outcome = "exec_fault")
    => last.error = "none"

\* C6: a remote fault never crashes a request: every page handler whose remote
\* call faults still returns its response.  Stated for the faults query_odoo
\* catches (those of execute_kw), after which the handler goes on with None.
C6_FaultNeverCrashes ==
    (\E i \in DOMAIN last.calls : last.calls[i].outcome = "exec_fault")
    => last.error = "none"

\* C7: every remote fault raised during a query_odoo call that misses the cache,
\* at login or at execute_kw, is caught inside query_odoo and returned to the
\* caller as None; none propagates.
C7_FaultsCaught ==
    \A i \in DOMAIN last.calls :
        Faulted(last.calls[i]) =>
            /\ last.calls[i].exc = "none"
            /\ last.calls[i].rv = None

\* C8: a successful unlink through delete_row changes no other cache entry, so a
\* read served before its entry expires is the cached, pre-delete result, without
\* a remote call; a read whose entry is absent or expired reaches the remote and
\* its result holds no unlinked record.
C8_StaleUntilExpiry ==
    [][(NewRequest /\ last'.calls /= <<>>) =>
        LET c == last'.calls[1]
        IN /\ (last'.handler = "delete_row" /\ c.outcome = "ok") =>
                \A k \in DOMAIN cache :
                    k /= c.key => (k \in DOMAIN cache' /\ cache'[k] = cache[k])
           /\ (c.operation = "search_read" /\ Served(c.key)) =>
                /\ c.rv = cache[c.key].value
                /\ c.logins = 0
                /\ c.execs = 0
           /\ (c.operation = "search_read" /\ ~Served(c.key)) => c.logins = 1
           /\ (c.operation = "search_read" /\ c.outcome = "ok") =>
                \A j \in DOMAIN c.rv.items : <<c.model, c.rv.items[j].id>> \notin deleted'
      ]_vars

\* a read answered from the cache that still lists a record the remote has unlinked
C8_Witness ==
    /\ last.handler \in {"view_data", "view_model"}
    /\ last.calls[1].outcome = "cached"
    /\ \E j \in DOMAIN last.objects.items :
          /\ <<last.model, last.objects.items[j].id>> \in deleted
          /\ last.objects.items[j].id \notin db[last.model]

\* C9: two requests in query_odoo for one key may both miss and both write; the
\* cache entry of a key holds the value of the last cache.set, and a request
\* returns the result of its own remote call or a value the remote returned
\* earlier for the same call, never one of another key.
C9_LastWriteWins ==
    /\ \A k \in DOMAIN lastSet : k \in DOMAIN cache /\ cache[k].value = lastSet[k]
    /\ \A t \in Threads :
          thr[t].pc = "done" =>
              \/ thr[t].called /\ thr[t].wrote /\ thr[t].ret = thr[t].results
              \/ ~thr[t].called /\ ~thr[t].wrote /\ thr[t].ret = None
              \/ /\ ~thr[t].called
                 /\ ~thr[t].wrote
                 /\ ThreadCall(t) \in DOMAIN produced
                 /\ thr[t].ret \in produced[ThreadCall(t)]

\* both requests missed the cache for the same key, called the remote and wrote
C9_Witness ==
    /\ thr[1].pc = "done"
    /\ thr[2].pc = "done"
    /\ thr[1].key = thr[2].key
    /\ thr[1].called /\ thr[1].wrote /\ ~Truthy(thr[1].rv)
    /\ thr[2].called /\ thr[2].wrote /\ ~Truthy(thr[2].rv)

\* C10 as stated: execute_kw is called iff the cache holds no truthy unexpired
\* value for the key.
C10_ExecIffMiss ==
    [][(NewRequest /\ last'.calls /= <<>>) =>
        (last'.calls[1].execs = 1 <=> ~Served(last'.calls[1].key))
      ]_vars

\* C10: query_odoo applies one read-through cache to every operation, unlink
\* included: the remote is contacted (login, then execute_kw unless login faults)
\* iff the cache holds no truthy unexpired value for the key, every successful
\* result is stored for 5 minutes, and a second delete_row(model, id) within the
\* 5 minutes of a successful one returns the cached result without a remote call.
C10_ReadThrough ==
    [][(NewRequest /\ last'.calls /= <<>>) =>
        LET c == last'.calls[1]
        IN /\ c.logins = 1 <=> ~Served(c.key)
           /\ c.execs = 1 <=> (~Served(c.key) /\ c.outcome /= "login_fault")
           /\ Served(c.key) => (c.rv = cache[c.key].value /\ cache' = cache)
           /\ c.outcome = "ok" =>
                /\ c.key \in DOMAIN cache'
                /\ cache'[c.key] = [expires |-> now + TTL, value |-> c.rv]
           /\ (c.operation = "unlink" /\ c.fresh) =>
                /\ c.logins = 0
                /\ c.execs = 0
                /\ c.rv = c.prev
      ]_vars

\* a second delete_row within the 5 minutes of a successful one, served by the cache
C10_Witness ==
    /\ last.handler = "delete_row"
    /\ last.calls[1].outcome = "cached"
    /\ last.calls[1].fresh
    /\ last.objects = True

====
